---- MODULE Spec2Model ----
(***************************************************************************)
(* Ghost Detector: the alarm system (alarm_system.py), the data logger     *)
(* (data_logger.py), the ghost analyzer (ghost_analyzer.py) and the sensor *)
(* manager (sensor_manager.py) as one state machine.                       *)
(*                                                                         *)
(* Numbers.  Probabilities handed to the alarm system and the data logger  *)
(* are one-decimal values and are kept in tenths (65.0 is 650).  Sensor    *)
(* values are kept in tenths as well (72.0 F is 720).  The analyzer's      *)
(* unrounded probability is kept in units of 1/10000, in which every       *)
(* weighted, normalised one-decimal sensor value is a whole number.        *)
(* Timestamps are readings of one clock, `now', in whole hours.            *)
(***************************************************************************)
EXTENDS Integers, Sequences, FiniteSets, TLC

VARIABLES
    alarm_state,         \* AlarmSystem.alarm_state
    alarm_history,       \* AlarmSystem.alarm_history
    active_alerts,       \* AlarmSystem.active_alerts
    sound_threads,       \* levels of the sound threads started by _play_alert_sound
    logs,                \* DataLogger.logs
    events,              \* DataLogger.events
    lock,                \* DataLogger.lock: "free" or "held"
    file,                \* the content of DataLogger.log_file
    loaded,              \* the rings of a second DataLogger built on the same file
    save_call,           \* a save_logs call running on a thread of its own
    history,             \* GhostAnalyzer.history
    sensors,             \* SensorManager.sensors[..]['value']
    calibration_offset,  \* SensorManager.calibration_offset
    ghost_activity,      \* SensorManager.ghost_activity
    activity_patterns,   \* SensorManager.activity_patterns
    sensor_lock,         \* SensorManager.lock: "free", or "loop" or "reader"
    snapshot,            \* the sensor values when _update_sensor_readings last ended
    read_call,           \* a get_all_readings call running on a thread of its own
    running,             \* SensorManager.running
    loop_thread,         \* SensorManager.thread: a place in loop_threads, 0 for None
    loop_threads,        \* the threads started on _read_sensors_loop
    stop_call,           \* a stop call: idle or waiting in thread.join
    now,                 \* the clock read by datetime.now()
    last_call            \* the latest call: its name, arguments and what it returned

vars == <<alarm_state, alarm_history, active_alerts, sound_threads, logs, events,
          lock, file, loaded, save_call, history, sensors, calibration_offset, ghost_activity,
          activity_patterns, sensor_lock, snapshot, read_call, running, loop_thread,
          loop_threads, stop_call, now, last_call>>

alarm_vars == <<alarm_state, alarm_history, active_alerts, sound_threads>>
store_vars == <<logs, events, lock, file, loaded, save_call>>
analyzer_vars == <<history>>
loop_vars == <<running, loop_thread, loop_threads, stop_call>>
sensor_vars == <<sensors, calibration_offset, ghost_activity, activity_patterns,
                 sensor_lock, snapshot, read_call, loop_vars>>

Min(a, b) == IF a < b THEN a ELSE b
Max(a, b) == IF a > b THEN a ELSE b

\* s[-n:] of Python for n >= 1: the last n elements, all of s when it is shorter.
LastN(s, n) == IF Len(s) > n THEN SubSeq(s, Len(s) - n + 1, Len(s)) ELSE s

\* datetime.isoformat(): 'YYYY-MM-DDTHH:...', a string whose first ten characters
\* are the date and from which fromisoformat() recovers the instant.
isoformat(t) == [date |-> t \div 24, hour |-> t % 24]
fromisoformat(s) == s.date * 24 + s.hour

----------------------------------------------------------------------------
(* alarm_system.py *)

AlarmLevels == {"NONE", "WARNING", "CRITICAL", "EMERGENCY"}

\* AlarmLevel.value
AlarmValue(level) ==
    CASE level = "NONE" -> 0
      [] level = "WARNING" -> 1
      [] level = "CRITICAL" -> 2
      [] level = "EMERGENCY" -> 3

ALERT_CAP == 20
ALARM_HISTORY_CAP == 100

add_alert_keeps_21(alerts, ts, message, alert_type) ==
    LastN(Append(alerts, [timestamp |-> ts, message |-> message,
                          type |-> alert_type, acknowledged |-> FALSE]),
          ALERT_CAP + 1)

\* _add_alert
add_alert(alerts, ts, message, alert_type) ==
    LET appended == Append(alerts, [timestamp |-> ts, message |-> message,
                                    type |-> alert_type, acknowledged |-> FALSE])
    IN  IF Len(appended) > ALERT_CAP THEN LastN(appended, ALERT_CAP) ELSE appended

\* _log_state_change
log_state_change(hist, ts, previous, current, analysis) ==
    LET appended == Append(hist, [timestamp |-> ts,
                                  previous_state |-> previous,
                                  current_state |-> current,
                                  probability |-> analysis.probability,
                                  ghost_type |-> analysis.ghost_type])
    IN  IF Len(appended) > ALARM_HISTORY_CAP
        THEN LastN(appended, ALARM_HISTORY_CAP) ELSE appended

threshold_level_ge(probability) ==
    IF probability >= 900 THEN "EMERGENCY"
    ELSE IF probability >= 800 THEN "CRITICAL"
    ELSE IF probability >= 600 THEN "WARNING"
    ELSE "NONE"

threshold_level_emergency_at_90(probability) ==
    IF probability >= 900 THEN "EMERGENCY"
    ELSE IF probability > 800 THEN "CRITICAL"
    ELSE IF probability > 600 THEN "WARNING"
    ELSE "NONE"

\* trigger_alarm, the if/elif chain: the level assigned to alarm_state
threshold_level(probability) ==
    IF probability > 900 THEN "EMERGENCY"
    ELSE IF probability > 800 THEN "CRITICAL"
    ELSE IF probability > 600 THEN "WARNING"
    ELSE "NONE"

\* trigger_alarm, the if/elif chain: the _add_alert call of each branch
threshold_alert(alerts, ts, probability) ==
    IF probability > 900
    THEN add_alert(alerts, ts, "EMERGENCY: Extreme paranormal activity detected!",
                   "emergency")
    ELSE IF probability > 800
    THEN add_alert(alerts, ts,
                   "CRITICAL: Ghost confirmed - immediate attention required",
                   "critical")
    ELSE IF probability > 600
    THEN add_alert(alerts, ts, "WARNING: Significant paranormal activity detected",
                   "warning")
    ELSE alerts

\* trigger_alarm: the state change is logged when the level differs
state_change_logged_on_increase(hist, ts, previous, current, analysis) ==
    IF AlarmValue(current) > AlarmValue(previous)
    THEN log_state_change(hist, ts, previous, current, analysis) ELSE hist

state_change_logged(hist, ts, previous, current, analysis) ==
    IF previous # current
    THEN log_state_change(hist, ts, previous, current, analysis) ELSE hist

\* _play_alert_sound, play_sound: the number of passes of the loop of a level
repetitions(level) ==
    CASE level = "WARNING" -> 3
      [] level = "CRITICAL" -> 5
      [] level = "EMERGENCY" -> 8
      [] level = "NONE" -> 0

\* _play_alert_sound: one daemon thread per call, started and not joined; the
\* call returns with the thread at the start of play_sound
play_alert_sound(threads, level) ==
    Append(threads, [level |-> level, repetitions |-> repetitions(level),
                     played |-> 0, status |-> "running"])

alert_sound_on_change(threads, previous, current) ==
    IF current # previous /\ current # "NONE"
    THEN play_alert_sound(threads, current) ELSE threads

\* trigger_alarm: the sound alert is triggered if the state increased
alert_sound(threads, previous, current) ==
    IF AlarmValue(current) > AlarmValue(previous)
    THEN play_alert_sound(threads, current) ELSE threads

\* trigger_alarm(analysis), called d hours after the previous call
trigger_alarm(analysis, d) ==
    LET probability == analysis.probability
        previous_state == alarm_state
        current == threshold_level(probability)
    IN  /\ now' = now + d
        /\ alarm_state' = current
        /\ active_alerts' = threshold_alert(active_alerts, isoformat(now'), probability)
        /\ alarm_history' = state_change_logged(alarm_history, isoformat(now'), previous_state,
                                            current, analysis)
        /\ sound_threads' = alert_sound(sound_threads, previous_state, current)
        /\ last_call' = [op |-> "trigger_alarm", probability |-> probability,
                         ghost_type |-> analysis.ghost_type,
                         previous_state |-> previous_state]
        /\ UNCHANGED <<store_vars, analyzer_vars, sensor_vars>>

\* play_sound, one pass of the loop of sound thread i (counted from 1).  The
\* thread runs on its own: an exception raised by winsound.Beep ends the thread
\* and goes to threading's excepthook, not to the caller of trigger_alarm.
play_sound(i, beep_ok) ==
    LET thread == sound_threads[i]
        played == thread.played + 1
    IN  /\ thread.status = "running"
        /\ sound_threads' =
               [sound_threads EXCEPT ![i] =
                   IF ~beep_ok THEN [thread EXCEPT !.status = "failed"]
                   ELSE IF played = thread.repetitions
                   THEN [thread EXCEPT !.played = played, !.status = "finished"]
                   ELSE [thread EXCEPT !.played = played]]
        /\ UNCHANGED <<alarm_state, alarm_history, active_alerts, now, last_call,
                       store_vars, analyzer_vars, sensor_vars>>

\* acknowledge_alert, the range test on alert_index
index_in_range(alert_index, alerts) ==
    0 <= alert_index /\ alert_index < Len(alerts)

acknowledged_all(alerts, alert_index) ==
    [i \in 1..Len(alerts) |-> [alerts[i] EXCEPT !.acknowledged = TRUE]]

\* acknowledge_alert: self.active_alerts[alert_index]['acknowledged'] = True;
\* Python counts the alerts from 0
acknowledged_at(alerts, alert_index) ==
    [alerts EXCEPT ![alert_index + 1].acknowledged = TRUE]

\* acknowledge_alert(alert_index) for an int alert_index
acknowledge_alert(alert_index) ==
    /\ active_alerts' = IF index_in_range(alert_index, active_alerts)
                        THEN acknowledged_at(active_alerts, alert_index)
                        ELSE active_alerts
    /\ last_call' = [op |-> "acknowledge_alert", alert_index |-> alert_index,
                     result |-> index_in_range(alert_index, active_alerts)]
    /\ UNCHANGED <<alarm_state, alarm_history, sound_threads, now, store_vars,
                   analyzer_vars, sensor_vars>>

cleared_alerts_kept(alerts, ts) == add_alert(alerts, ts, "All alarms cleared", "info")

\* clear_alarms: self.active_alerts = [] and the _add_alert call after it
cleared_alerts(alerts, ts) == add_alert(<<>>, ts, "All alarms cleared", "info")

\* clear_alarms(), called d hours after the previous call.  It writes no
\* state change to alarm_history.
clear_alarms(d) ==
    /\ now' = now + d
    /\ alarm_state' = "NONE"
    /\ active_alerts' = cleared_alerts(active_alerts, isoformat(now'))
    /\ last_call' = [op |-> "clear_alarms", previous_state |-> alarm_state,
                     result |-> "Alarms cleared"]
    /\ UNCHANGED <<alarm_history, sound_threads, store_vars, analyzer_vars,
                   sensor_vars>>

\* simulate_emergency(): trigger_alarm on a fixed analysis
simulate_emergency(d) ==
    trigger_alarm([probability |-> 950, ghost_type |-> "Poltergeist",
                   evidence |-> <<"EMF Spike: 85 mG", "Cold Spot: 45 F",
                                  "Spectral Anomaly: 750 MHz">>], d)

\* shutdown(): clear_alarms() after self.running = False, a flag nothing reads
shutdown(d) ==
    /\ now' = now + d
    /\ alarm_state' = "NONE"
    /\ active_alerts' = cleared_alerts(active_alerts, isoformat(now'))
    /\ last_call' = [op |-> "shutdown", previous_state |-> alarm_state]
    /\ UNCHANGED <<alarm_history, sound_threads, store_vars, analyzer_vars,
                   sensor_vars>>

----------------------------------------------------------------------------
(* data_logger.py *)

LOG_CAP == 1000
EVENT_CAP == 500

\* Python's None
PyNone == "None"

\* collections.deque(maxlen=...).append: a full deque discards its leftmost item
deque_append(ring, item, maxlen) ==
    IF Len(ring) >= maxlen THEN Append(Tail(ring), item) ELSE Append(ring, item)

\* threading.Lock.acquire: succeeds only on a free lock, also for the thread
\* that holds it
can_acquire(lock_state, held_by_caller) == lock_state = "free"

\* log_event, the entry it builds from event_data at clock reading t
event_entry(event_data, t) ==
    [timestamp |-> IF "timestamp" \in DOMAIN event_data
                   THEN event_data.timestamp ELSE isoformat(t),
     type |-> IF "type" \in DOMAIN event_data THEN event_data.type ELSE "info",
     data |-> event_data]

\* log_reading, the event_data it hands to log_event
significant_detection(log_entry, analysis) ==
    [type |-> "significant_detection",
     timestamp |-> log_entry.timestamp,
     probability |-> analysis.probability,
     ghost_type |-> analysis.ghost_type,
     evidence |-> analysis.evidence]

\* log_reading: analysis['probability'] > 60
is_significant(analysis) == analysis.probability > 600

\* log_reading(sensor_data, analysis), called d hours after the previous call.
\* The body runs with self.lock held; the log_event call inside it acquires
\* self.lock again, and the call returns only if that acquisition succeeds.
log_reading(sensor_data, analysis, d) ==
    LET log_entry == [timestamp |-> isoformat(now'),
                      sensors |-> sensor_data,
                      analysis |-> analysis]
        nested == can_acquire("held", TRUE)
    IN  /\ can_acquire(lock, FALSE)
        /\ now' = now + d
        /\ logs' = deque_append(logs, log_entry, LOG_CAP)
        /\ IF is_significant(analysis)
           THEN IF nested
                THEN /\ events' = deque_append(
                            events,
                            event_entry(significant_detection(log_entry, analysis),
                                        now'),
                            EVENT_CAP)
                     /\ lock' = "free"
                ELSE /\ events' = events
                     /\ lock' = "held"
           ELSE /\ events' = events
                /\ lock' = "free"
        /\ last_call' = [op |-> "log_reading",
                         probability |-> analysis.probability,
                         returned |-> (is_significant(analysis) => nested)]
        /\ UNCHANGED <<file, loaded, save_call, alarm_vars, analyzer_vars, sensor_vars>>

\* log_event(event_data), called by a client d hours after the previous call
log_event(event_data, d) ==
    /\ can_acquire(lock, FALSE)
    /\ now' = now + d
    /\ events' = deque_append(events, event_entry(event_data, now'), EVENT_CAP)
    /\ last_call' = [op |-> "log_event", returned |-> TRUE]
    /\ UNCHANGED <<logs, lock, file, loaded, save_call, alarm_vars, analyzer_vars,
                   sensor_vars>>

(* json.dump and json.load.  A JSON text is modelled by the value it denotes:
   null, a string, a number, an array or an object with string keys. *)
JNull == [j |-> "null"]
JString(s) == [j |-> "string", v |-> s]
JNumber(n) == [j |-> "number", v |-> n]
JArray(a) == [j |-> "array", v |-> a]
JObject(o) == [j |-> "object", v |-> o]

\* json.dump of a str-or-None, of a list of str and of a dict of numbers
dump_optional_str(v) == IF v = PyNone THEN JNull ELSE JString(v)
dump_str_list(l) == JArray([i \in 1..Len(l) |-> JString(l[i])])
dump_number_dict(d) == JObject([k \in DOMAIN d |-> JNumber(d[k])])

\* json.load of the same
load_optional_str(x) == IF x.j = "null" THEN PyNone ELSE x.v
load_str_list(x) == [i \in 1..Len(x.v) |-> x.v[i].v]
load_number_dict(x) == [k \in DOMAIN x.v |-> x.v[k].v]

\* json.dump / json.load of an analysis dict
dump_analysis(a) ==
    JObject([timestamp |-> JString(a.timestamp),
             probability |-> JNumber(a.probability),
             ghost_type |-> dump_optional_str(a.ghost_type),
             evidence |-> dump_str_list(a.evidence),
             confidence |-> JNumber(a.confidence),
             activity_level |-> JString(a.activity_level),
             recommendations |-> dump_str_list(a.recommendations)])

load_analysis(x) ==
    [timestamp |-> x.v.timestamp.v,
     probability |-> x.v.probability.v,
     ghost_type |-> load_optional_str(x.v.ghost_type),
     evidence |-> load_str_list(x.v.evidence),
     confidence |-> x.v.confidence.v,
     activity_level |-> x.v.activity_level.v,
     recommendations |-> load_str_list(x.v.recommendations)]

\* json.dump / json.load of a log entry
dump_log(log) ==
    JObject([timestamp |-> JString(log.timestamp),
             sensors |-> dump_number_dict(log.sensors),
             analysis |-> dump_analysis(log.analysis)])

load_log(x) ==
    [timestamp |-> x.v.timestamp.v,
     sensors |-> load_number_dict(x.v.sensors),
     analysis |-> load_analysis(x.v.analysis)]

\* json.dump / json.load of the event_data of an event: the keys it has, each
\* by its type
dump_event_data(d) ==
    JObject([k \in DOMAIN d |->
                CASE k = "probability" -> JNumber(d[k])
                  [] k = "ghost_type" -> dump_optional_str(d[k])
                  [] k = "evidence" -> dump_str_list(d[k])
                  [] OTHER -> JString(d[k])])

load_event_data(x) ==
    [k \in DOMAIN x.v |->
        CASE x.v[k].j = "null" -> PyNone
          [] x.v[k].j = "array" -> load_str_list(x.v[k])
          [] OTHER -> x.v[k].v]

dump_event(e) ==
    JObject([timestamp |-> JString(e.timestamp),
             type |-> JString(e.type),
             data |-> dump_event_data(e.data)])

load_event(x) ==
    [timestamp |-> x.v.timestamp.v,
     type |-> x.v.type.v,
     data |-> load_event_data(x.v.data)]

\* save_logs, the document it writes: list(self.logs), list(self.events), last_save
saved_document_newest_first(log_ring, event_ring, t) ==
    JObject([logs |-> JArray([i \in 1..Len(log_ring) |->
                                 dump_log(log_ring[Len(log_ring) + 1 - i])]),
             events |-> JArray([i \in 1..Len(event_ring) |->
                                   dump_event(event_ring[Len(event_ring) + 1 - i])]),
             last_save |-> JString(isoformat(t))])

saved_document(log_ring, event_ring, t) ==
    JObject([logs |-> JArray([i \in 1..Len(log_ring) |-> dump_log(log_ring[i])]),
             events |-> JArray([i \in 1..Len(event_ring) |->
                                   dump_event(event_ring[i])]),
             last_save |-> JString(isoformat(t))])

\* save_logs(), called d hours after the previous call.  It takes no lock.
save_logs(d) ==
    /\ now' = now + d
    /\ file' = [exists |-> TRUE, content |-> saved_document(logs, events, now')]
    /\ last_call' = [op |-> "save_logs"]
    /\ UNCHANGED <<logs, events, lock, loaded, save_call, alarm_vars, analyzer_vars,
                   sensor_vars>>

(* save_logs() run on a thread of its own, statement by statement, so that the
   calls of other threads come between its statements.  No statement of it
   acquires self.lock. *)

\* the text of a file just opened with mode 'w': no JSON value
EmptyText == [j |-> "none"]

\* save_logs: open(self.log_file, 'w'), then list(self.logs)
save_logs_open ==
    /\ save_call.pc = "idle"
    /\ file' = [exists |-> TRUE, content |-> EmptyText]
    /\ save_call' = [pc |-> "logs_read", logs |-> logs]
    /\ last_call' = [op |-> "save_logs_open"]
    /\ UNCHANGED <<logs, events, lock, loaded, now, alarm_vars, analyzer_vars,
                   sensor_vars>>

\* save_logs: list(self.events)
save_logs_read_events ==
    /\ save_call.pc = "logs_read"
    /\ save_call' = [pc |-> "events_read", logs |-> save_call.logs,
                     events |-> events]
    /\ last_call' = [op |-> "save_logs_read_events"]
    /\ UNCHANGED <<logs, events, lock, file, loaded, now, alarm_vars,
                   analyzer_vars, sensor_vars>>

\* save_logs: datetime.now().isoformat(), json.dump and the close of the file
save_logs_dump ==
    /\ save_call.pc = "events_read"
    /\ file' = [exists |-> TRUE,
                content |-> saved_document(save_call.logs, save_call.events, now)]
    /\ save_call' = [pc |-> "idle"]
    /\ last_call' = [op |-> "save_logs_dump"]
    /\ UNCHANGED <<logs, events, lock, loaded, now, alarm_vars, analyzer_vars,
                   sensor_vars>>

RECURSIVE append_all(_, _, _)
\* _load_logs, one of its loops: self.logs.append(log) for every item read
append_all(ring, items, maxlen) ==
    IF items = <<>> THEN ring
    ELSE append_all(deque_append(ring, Head(items), maxlen), Tail(items), maxlen)

\* _load_logs on empty rings: what DataLogger(log_file) holds once constructed;
\* a file that json.load cannot read leaves the rings empty
load_logs(f) ==
    IF f.exists /\ f.content.j = "object"
    THEN [built |-> TRUE,
          logs |-> append_all(<<>>, [i \in 1..Len(f.content.v.logs.v) |->
                                        load_log(f.content.v.logs.v[i])], LOG_CAP),
          events |-> append_all(<<>>, [i \in 1..Len(f.content.v.events.v) |->
                                          load_event(f.content.v.events.v[i])],
                                EVENT_CAP)]
    ELSE [built |-> TRUE, logs |-> <<>>, events |-> <<>>]

\* DataLogger(log_file): a second store constructed on the file of the first
construct_store ==
    /\ loaded' = load_logs(file)
    /\ last_call' = [op |-> "construct_store", after_save |-> last_call.op = "save_logs"]
    /\ UNCHANGED <<logs, events, lock, file, save_call, now, alarm_vars,
                   analyzer_vars, sensor_vars>>

RECURSIVE SumOf(_)
\* sum(probabilities)
SumOf(q) == IF q = <<>> THEN 0 ELSE Head(q) + SumOf(Tail(q))

RECURSIVE MaxOf(_)
MaxOf(q) == IF Len(q) = 1 THEN q[1] ELSE Max(Head(q), MaxOf(Tail(q)))

RECURSIVE MinOf(_)
MinOf(q) == IF Len(q) = 1 THEN q[1] ELSE Min(Head(q), MinOf(Tail(q)))

\* round(n / m, 1) of a quotient of tenths: to the nearest tenth, a tie to the
\* even one
RoundedQuotient(n, m) ==
    LET q == n \div m
        r == n % m
    IN  IF 2 * r > m THEN q + 1
        ELSE IF 2 * r < m THEN q
        ELSE IF q % 2 = 0 THEN q ELSE q + 1

RECURSIVE FirstSeen(_, _)
\* the keys of a dict filled by one pass over q, in insertion order
FirstSeen(q, seen) ==
    IF q = <<>> THEN <<>>
    ELSE IF Head(q) \in seen THEN FirstSeen(Tail(q), seen)
    ELSE <<Head(q)>> \o FirstSeen(Tail(q), seen \cup {Head(q)})

\* _get_most_active_hour: max(hour_count.items(), key=count), the first item
\* with the greatest count in the dict's insertion order
get_most_active_hour(recent_logs) ==
    LET hours == [i \in 1..Len(recent_logs) |->
                     fromisoformat(recent_logs[i].timestamp) % 24]
        keys == FirstSeen(hours, {})
        hour_count(h) == Len(SelectSeq(hours, LAMBDA x : x = h))
        best == CHOOSE i \in 1..Len(keys) :
                    /\ \A k \in 1..Len(keys) :
                           hour_count(keys[k]) <= hour_count(keys[i])
                    /\ \A k \in 1..(i - 1) :
                           hour_count(keys[k]) < hour_count(keys[i])
    IN  IF Len(keys) > 0
        THEN [hour |-> keys[best], readings |-> hour_count(keys[best])]
        ELSE [hour |-> PyNone, readings |-> 0]

\* generate_report, the list comprehension: the logs newer than the cutoff
logs_newer_than(log_ring, cutoff) ==
    SelectSeq(log_ring, LAMBDA log : fromisoformat(log.timestamp) > cutoff)

report_without_empty_check(recent_logs, hours, t) ==
    LET probabilities == [i \in 1..Len(recent_logs) |->
                             recent_logs[i].analysis.probability]
    IN  [period |-> hours,
         total_readings |-> Len(recent_logs),
         avg_activity |-> 0,
         total_detections |-> 0,
         max_probability |-> 0,
         min_probability |-> 0,
         ghost_type_breakdown |-> <<>>,
         most_active_hour |-> get_most_active_hour(recent_logs),
         generated |-> isoformat(t)]

\* generate_report, from `if not recent_logs' on
report_of(recent_logs, hours, t) ==
    IF recent_logs = <<>>
    THEN [error |-> "No data available for this period"]
    ELSE
    LET probabilities == [i \in 1..Len(recent_logs) |->
                             recent_logs[i].analysis.probability]
        detections == SelectSeq(recent_logs,
                                LAMBDA log : log.analysis.probability > 500)
        typed == SelectSeq(detections, LAMBDA log : log.analysis.ghost_type # PyNone)
        types == {typed[i].analysis.ghost_type : i \in 1..Len(typed)}
    IN  [period |-> hours,
         total_readings |-> Len(recent_logs),
         avg_activity |-> RoundedQuotient(SumOf(probabilities), Len(probabilities)),
         total_detections |-> Len(detections),
         max_probability |-> MaxOf(probabilities),
         min_probability |-> MinOf(probabilities),
         ghost_type_breakdown |->
             [g \in types |->
                 Len(SelectSeq(typed, LAMBDA log : log.analysis.ghost_type = g))],
         most_active_hour |-> get_most_active_hour(recent_logs),
         generated |-> isoformat(t)]

\* generate_report(hours), called d hours after the previous call
generate_report(hours, d) ==
    /\ can_acquire(lock, FALSE)
    /\ now' = now + d
    /\ last_call' = [op |-> "generate_report", hours |-> hours,
                     result |-> report_of(logs_newer_than(logs, now' - hours),
                                          hours, now')]
    /\ UNCHANGED <<store_vars, alarm_vars, analyzer_vars, sensor_vars>>

\* s[-n:] of Python for any int n: the last n elements for n > 0, all of s for
\* n = 0 (-0 is 0), and s without its first -n elements for n < 0
slice_from_minus(s, n) ==
    IF n > 0 THEN LastN(s, n)
    ELSE IF -n >= Len(s) THEN <<>>
    ELSE SubSeq(s, 1 - n, Len(s))

\* get_recent_logs(count): list(self.logs)[-count:]
get_recent_logs(count) ==
    /\ can_acquire(lock, FALSE)
    /\ last_call' = [op |-> "get_recent_logs", count |-> count,
                     result |-> slice_from_minus(logs, count)]
    /\ UNCHANGED <<now, store_vars, alarm_vars, analyzer_vars, sensor_vars>>

\* e['data'].get('type')
data_type(e) == IF "type" \in DOMAIN e.data THEN e.data.type ELSE PyNone

\* get_events, what it returns: the slice first, then the filter on the slice
events_of(event_ring, event_type, limit) ==
    IF event_type # PyNone /\ event_type # ""
    THEN SelectSeq(slice_from_minus(event_ring, limit),
                   LAMBDA e : data_type(e) = event_type)
    ELSE slice_from_minus(event_ring, limit)

\* get_events(event_type, limit)
get_events(event_type, limit) ==
    /\ can_acquire(lock, FALSE)
    /\ last_call' = [op |-> "get_events", event_type |-> event_type, limit |-> limit,
                     result |-> events_of(events, event_type, limit)]
    /\ UNCHANGED <<now, store_vars, alarm_vars, analyzer_vars, sensor_vars>>

\* timedelta(days=days), in hours
timedelta_days(days) == days * 24

\* clear_old_logs, the new deque: the logs stamped after the cutoff
logs_kept(log_ring, cutoff) ==
    append_all(<<>>,
               SelectSeq(log_ring, LAMBDA log : fromisoformat(log.timestamp) > cutoff),
               LOG_CAP)

\* clear_old_logs(days), called d hours after the previous call
clear_old_logs(days, d) ==
    LET cutoff == now' - timedelta_days(days)
        original_count == Len(logs)
    IN  /\ can_acquire(lock, FALSE)
        /\ now' = now + d
        /\ logs' = logs_kept(logs, cutoff)
        /\ last_call' = [op |-> "clear_old_logs", days |-> days,
                         removed |-> original_count - Len(logs')]
        /\ UNCHANGED <<events, lock, file, loaded, save_call, alarm_vars,
                       analyzer_vars, sensor_vars>>

----------------------------------------------------------------------------
(* ghost_analyzer.py *)

ANALYZER_HISTORY_CAP == 50

\* GhostAnalyzer.ghost_types
GhostTypes == {"Poltergeist", "Wraith", "Phantom", "Specter", "Banshee",
               "Apparition", "Shadow Person", "Orb", "Mist Entity", "Ectoplasm"}

\* GhostAnalyzer.evidence_weights, in hundredths
evidence_weights == [emf |-> 30, temperature |-> 25, spectral |-> 25,
                     motion |-> 15, humidity |-> 3, pressure |-> 2]

\* _normalize_sensor: the (min, max) of each sensor, in tenths
ranges == [emf |-> <<0, 1000>>, temperature |-> <<400, 900>>,
           humidity |-> <<200, 800>>, pressure |-> <<9800, 10300>>,
           spectral |-> <<0, 10000>>, motion |-> <<0, 1000>>]

\* _normalize_sensor: the normalised value in [0, 1], in units of 1/30000 (a
\* whole number for every one-decimal value of every sensor)
normalize_sensor(sensor, value) ==
    LET min_val == ranges[sensor][1]
        max_val == ranges[sensor][2]
        fraction == ((value - min_val) * 30000) \div (max_val - min_val)
        normalized == IF sensor = "temperature" THEN 30000 - fraction ELSE fraction
    IN  Max(0, Min(30000, normalized))

\* a trend taken over the whole history, from its oldest to its newest result
analyze_patterns_whole_history(hist) ==
    IF Len(hist) < 10 THEN 0
    ELSE LET trend == hist[Len(hist)].probability - hist[1].probability
         IN  IF trend > 200 THEN 15
             ELSE IF trend > 100 THEN 8
             ELSE 0

\* _analyze_patterns; the stored probabilities are tenths and their difference
\* is taken exactly, where the float difference can be off by one ulp
analyze_patterns(hist) ==
    IF Len(hist) < 10 THEN 0
    ELSE LET recent == LastN(hist, 10)
             trend == recent[10].probability - recent[1].probability
         IN  IF trend > 200 THEN 15
             ELSE IF trend > 100 THEN 8
             ELSE 0

\* _calculate_probability, in units of 1/10000
calculate_probability(data, current_hour, hist) ==
    LET term(sensor) == IF sensor \in DOMAIN data
                        THEN normalize_sensor(sensor, data[sensor])
                                 * evidence_weights[sensor]
                        ELSE 0
        weight(sensor) == IF sensor \in DOMAIN data
                          THEN evidence_weights[sensor] ELSE 0
        score == term("emf") + term("temperature") + term("spectral")
                 + term("motion") + term("humidity") + term("pressure")
        total_weight == weight("emf") + weight("temperature") + weight("spectral")
                        + weight("motion") + weight("humidity") + weight("pressure")
        base_probability == IF total_weight > 0
                            THEN (score * 100) \div (total_weight * 3)
                            ELSE 0
        time_modifier == IF current_hour < 6 \/ current_hour > 20 THEN 15
                         ELSE IF current_hour < 8 \/ current_hour > 18 THEN 5
                         ELSE 0
        pattern_modifier == analyze_patterns(hist)
        probability == base_probability + time_modifier * 10000
                       + pattern_modifier * 10000
    IN  Max(0, Min(1000000, probability))

\* round(probability, 1): the nearest tenth, a tie to the even one
round_1(probability) ==
    LET q == probability \div 1000
        r == probability % 1000
    IN  IF r > 500 THEN q + 1
        ELSE IF r < 500 THEN q
        ELSE IF q % 2 = 0 THEN q ELSE q + 1

\* analyze, "Determine activity level": the label of the unrounded probability
activity_level_of(probability) ==
    IF probability < 300000 THEN "Low"
    ELSE IF probability < 600000 THEN "Moderate"
    ELSE IF probability < 800000 THEN "High"
    ELSE "Critical"

identify_ghost_type_poltergeist_first(data, choice) ==
    LET emf_high == data.emf > 700
        cold == data.temperature < 500
        high_frequency == data.spectral > 6000
        active == data.motion > 600
    IN  IF emf_high /\ active THEN "Poltergeist"
        ELSE IF cold /\ high_frequency THEN "Wraith"
        ELSE IF high_frequency THEN "Specter"
        ELSE IF cold THEN "Phantom"
        ELSE IF active THEN "Apparition"
        ELSE choice

\* _identify_ghost_type; choice is what random.choice(self.ghost_types) draws
identify_ghost_type(data, choice) ==
    LET emf_high == data.emf > 700
        cold == data.temperature < 500
        high_frequency == data.spectral > 6000
        active == data.motion > 600
    IN  IF cold /\ high_frequency THEN "Wraith"
        ELSE IF emf_high /\ active THEN "Poltergeist"
        ELSE IF high_frequency THEN "Specter"
        ELSE IF cold THEN "Phantom"
        ELSE IF active THEN "Apparition"
        ELSE choice

\* _gather_evidence
gather_evidence(data) ==
    LET evidence ==
            (IF data.emf > 500
             THEN <<[label |-> "EMF Spike", value |-> data.emf]>> ELSE <<>>)
            \o (IF data.temperature < 550
                THEN <<[label |-> "Cold Spot", value |-> data.temperature]>>
                ELSE <<>>)
            \o (IF data.spectral > 5000
                THEN <<[label |-> "Spectral Anomaly", value |-> data.spectral]>>
                ELSE <<>>)
            \o (IF data.motion > 500
                THEN <<[label |-> "Motion Detected", value |-> data.motion]>>
                ELSE <<>>)
            \o (IF data.humidity > 650
                THEN <<[label |-> "Humidity Surge", value |-> data.humidity]>>
                ELSE <<>>)
            \o (IF data.pressure < 9950
                THEN <<[label |-> "Pressure Drop", value |-> data.pressure]>>
                ELSE <<>>)
    IN  SubSeq(evidence, 1, Min(5, Len(evidence)))

\* _calculate_confidence, in tenths; uniform is what random.uniform(5, 15) draws
calculate_confidence(data, hist, uniform) ==
    LET triggered(sensor, threshold) == IF data[sensor] > threshold THEN 1 ELSE 0
        sensors_triggered == triggered("emf", 600) + triggered("temperature", 550)
                             + triggered("spectral", 5000) + triggered("motion", 600)
        recent == LastN(hist, 5)
        recent_detections == Len(SelectSeq(recent, LAMBDA h : h.probability > 500))
        consistency == IF Len(hist) > 5 THEN recent_detections * 80 ELSE 0
    IN  Min(1000, sensors_triggered * 150 + consistency + uniform)

\* _generate_recommendations
generate_recommendations(analysis) ==
    LET prob == analysis.probability
    IN  IF prob > 800
        THEN <<"IMMEDIATE EVACUATION RECOMMENDED",
               "Contact paranormal investigation team",
               "Set up additional recording equipment">>
        ELSE IF prob > 600
        THEN <<"Maintain observation - activity increasing",
               "Deploy backup sensors", "Document all readings">>
        ELSE IF prob > 400
        THEN <<"Continue monitoring", "Check sensor calibration",
               "Note environmental conditions">>
        ELSE <<"Normal conditions", "Perform routine sensor check">>

\* analyze, the result it builds at clock reading t
analysis_of(sensor_data, t, hist, choice, uniform) ==
    LET probability == calculate_probability(sensor_data, t % 24, hist)
        base == [timestamp |-> isoformat(t),
                 probability |-> round_1(probability),
                 ghost_type |-> PyNone,
                 evidence |-> <<>>,
                 confidence |-> 0,
                 activity_level |-> activity_level_of(probability),
                 recommendations |-> <<>>]
    IN  IF probability > 400000
        THEN [base EXCEPT !.ghost_type = identify_ghost_type(sensor_data, choice),
                          !.evidence = gather_evidence(sensor_data),
                          !.confidence = calculate_confidence(sensor_data, hist,
                                                              uniform),
                          !.recommendations = generate_recommendations(base)]
        ELSE base

\* analyze(sensor_data), called d hours after the previous call
analyze(sensor_data, d, choice, uniform) ==
    LET analysis == analysis_of(sensor_data, now', history, choice, uniform)
    IN  /\ now' = now + d
        /\ history' = deque_append(history, analysis, ANALYZER_HISTORY_CAP)
        /\ last_call' = [op |-> "analyze", sensor_data |-> sensor_data,
                         result |-> analysis]
        /\ UNCHANGED <<alarm_vars, store_vars, sensor_vars>>

----------------------------------------------------------------------------
(* sensor_manager.py.  Values, offsets and the activity level are in tenths.
   A draw is the record of the random numbers and the sines of one cycle:
   random_activity, cycle, emf_jitter, emf_spike (0 when random() >= 0.1),
   temperature_jitter, humidity_jitter, humidity_rise, pressure_jitter,
   pressure_drop, spectral_base, spectral_sine, spectral_spike (0 when
   random() >= 0.15) and motion_base. *)

PATTERN_CAP == 100

\* SensorManager.sensors[..]['min'] and ['max']
sensor_bounds == [emf |-> <<0, 1000>>, temperature |-> <<400, 900>>,
                  humidity |-> <<200, 800>>, pressure |-> <<9800, 10300>>,
                  spectral |-> <<0, 10000>>, motion |-> <<0, 1000>>]

\* _calculate_ghost_activity, the level before min(100, .)
activity_level(current_hour, draw) ==
    LET time_factor == IF current_hour < 6 \/ current_hour > 20 THEN 300 ELSE 0
    IN  time_factor + draw.random_activity + draw.cycle

\* _calculate_ghost_activity, the pattern list after the append and the pop
patterns_after(patterns, t, activity) ==
    LET appended == Append(patterns, [timestamp |-> t, level |-> activity])
    IN  IF Len(appended) > PATTERN_CAP THEN Tail(appended) ELSE appended

simulate_emf_unclamped(activity, offset, draw) ==
    LET base0 == 250 + draw.emf_jitter
        base1 == IF activity > 500 THEN base0 + (activity * 7) \div 10 ELSE base0
        base == base1 + draw.emf_spike
    IN  base + offset.emf

\* _simulate_emf
simulate_emf(activity, offset, draw) ==
    LET base0 == 250 + draw.emf_jitter
        base1 == IF activity > 500 THEN base0 + (activity * 7) \div 10 ELSE base0
        base == base1 + draw.emf_spike
    IN  Max(0, Min(1000, base + offset.emf))

\* _simulate_temperature
simulate_temperature(activity, offset, draw, emf) ==
    LET base0 == 720 + draw.temperature_jitter
        base1 == IF activity > 600 THEN base0 - (activity * 3) \div 10 ELSE base0
        base == IF emf > 700 THEN base1 - 100 ELSE base1
    IN  Max(400, Min(900, base + offset.temperature))

\* _simulate_humidity
simulate_humidity(activity, offset, draw) ==
    LET base0 == 450 + draw.humidity_jitter
        base == IF activity > 400 THEN base0 + draw.humidity_rise ELSE base0
    IN  Max(200, Min(800, base + offset.humidity))

\* _simulate_pressure
simulate_pressure(activity, offset, draw) ==
    LET base0 == 10130 + draw.pressure_jitter
        base == IF activity > 700 THEN base0 + draw.pressure_drop ELSE base0
    IN  Max(9800, Min(10300, base + offset.pressure))

\* _simulate_spectral
simulate_spectral(activity, offset, draw) ==
    LET base0 == draw.spectral_base
        base1 == IF activity > 300
                 THEN base0 + draw.spectral_sine + activity * 5 ELSE base0
        base == base1 + draw.spectral_spike
    IN  Max(0, Min(10000, base + offset.spectral))

\* _simulate_motion
simulate_motion(activity, offset, draw, emf) ==
    LET base0 == draw.motion_base
        base1 == IF activity > 500 THEN base0 + (activity * 4) \div 10 ELSE base0
        base == IF emf > 600 THEN base1 + 300 ELSE base1
    IN  Max(0, Min(1000, base + offset.motion))

\* a lock taken by whoever asks, held or not
sensor_lock_never_held(holder) == TRUE

\* `with self.lock` of SensorManager is entered only while nobody holds the lock
sensor_lock_free(holder) == holder = "free"

\* _update_sensor_readings(), run d hours after the previous call, as one step
update_sensor_readings(draw, d) ==
    LET level == activity_level(now' % 24, draw)
        activity == Min(1000, level)
        emf == simulate_emf(activity, calibration_offset, draw)
    IN  /\ sensor_lock_free(sensor_lock)
        /\ now' = now + d
        /\ activity_patterns' = patterns_after(activity_patterns, now', level)
        /\ ghost_activity' = activity
        /\ sensors' = [emf |-> emf,
                       temperature |-> simulate_temperature(activity,
                                           calibration_offset, draw, emf),
                       humidity |-> simulate_humidity(activity, calibration_offset,
                                                      draw),
                       pressure |-> simulate_pressure(activity, calibration_offset,
                                                      draw),
                       spectral |-> simulate_spectral(activity, calibration_offset,
                                                      draw),
                       motion |-> simulate_motion(activity, calibration_offset,
                                                  draw, emf)]
        /\ calibration_offset' = calibration_offset
        /\ snapshot' = sensors'
        /\ last_call' = [op |-> "update_sensor_readings"]
        /\ UNCHANGED <<sensor_lock, read_call, loop_vars>>
        /\ UNCHANGED <<alarm_vars, store_vars, analyzer_vars>>

\* calibrate(); offsets is what random.uniform(-2, 2) draws for each sensor
calibrate(offsets) ==
    /\ sensor_lock_free(sensor_lock)
    /\ calibration_offset' = offsets
    /\ ghost_activity' = 0
    /\ activity_patterns' = <<>>
    /\ last_call' = [op |-> "calibrate", result |-> "Calibration successful"]
    /\ UNCHANGED <<sensors, sensor_lock, snapshot, read_call, loop_vars>>
    /\ UNCHANGED <<now, alarm_vars, store_vars, analyzer_vars>>

\* get_all_readings: round(value, 1) of every sensor, in a new dict; a value
\* kept in tenths is its own rounding to one decimal
get_all_readings(sensor_values) ==
    [sensor_name \in DOMAIN sensor_values |-> sensor_values[sensor_name]]

\* the order in which the dict self.sensors is written and iterated
sensor_order == <<"emf", "temperature", "humidity", "pressure", "spectral",
                  "motion">>

\* get_all_readings on a thread of its own: the lock is taken and readings = {}
get_all_readings_enter ==
    /\ read_call.pc = "idle"
    /\ sensor_lock_free(sensor_lock)
    /\ sensor_lock' = "reader"
    /\ read_call' = [pc |-> "reading", readings |-> <<>>]
    /\ UNCHANGED <<sensors, calibration_offset, ghost_activity, activity_patterns,
                   snapshot, loop_vars>>
    /\ UNCHANGED <<now, last_call, alarm_vars, store_vars, analyzer_vars>>

\* one turn of its for loop: readings[sensor_name] = round(value, 1); readings
\* is the sequence of the values copied so far, in sensor_order
get_all_readings_copy ==
    /\ read_call.pc = "reading"
    /\ Len(read_call.readings) < Len(sensor_order)
    /\ read_call' = [read_call EXCEPT
                        !.readings = Append(@, sensors[sensor_order[Len(@) + 1]])]
    /\ UNCHANGED <<sensors, calibration_offset, ghost_activity, activity_patterns,
                   sensor_lock, snapshot, loop_vars>>
    /\ UNCHANGED <<now, last_call, alarm_vars, store_vars, analyzer_vars>>

\* its return: the lock is left and the caller holds the new dict
get_all_readings_return ==
    /\ read_call.pc = "reading"
    /\ Len(read_call.readings) = Len(sensor_order)
    /\ sensor_lock' = "free"
    /\ read_call' = [pc |-> "returned",
                     result |-> [k \in DOMAIN sensors |->
                                    read_call.readings[
                                        CHOOSE i \in DOMAIN sensor_order :
                                            sensor_order[i] = k]]]
    /\ last_call' = [op |-> "get_all_readings", result |-> read_call'.result]
    /\ UNCHANGED <<sensors, calibration_offset, ghost_activity, activity_patterns,
                   snapshot, loop_vars>>
    /\ UNCHANGED <<now, alarm_vars, store_vars, analyzer_vars>>

\* start(); start_time, which only get_uptime reads, is left out
start ==
    /\ stop_call.pc = "idle"
    /\ IF ~running
       THEN /\ running' = TRUE
            /\ loop_threads' = Append(loop_threads, [pc |-> "while"])
            /\ loop_thread' = Len(loop_threads) + 1
       ELSE UNCHANGED <<running, loop_threads, loop_thread>>
    /\ last_call' = [op |-> "start", spawned |-> ~running]
    /\ UNCHANGED <<sensors, calibration_offset, ghost_activity, activity_patterns,
                   sensor_lock, snapshot, read_call, stop_call>>
    /\ UNCHANGED <<now, alarm_vars, store_vars, analyzer_vars>>

\* stop() up to its join: running = False, and with no thread it returns
stop_enter ==
    /\ stop_call.pc = "idle"
    /\ running' = FALSE
    /\ stop_call' = IF loop_thread # 0 THEN [pc |-> "join"] ELSE stop_call
    /\ last_call' = [op |-> "stop", returned |-> loop_thread = 0]
    /\ UNCHANGED <<sensors, calibration_offset, ghost_activity, activity_patterns,
                   sensor_lock, snapshot, read_call, loop_thread, loop_threads>>
    /\ UNCHANGED <<now, alarm_vars, store_vars, analyzer_vars>>

\* thread.join(timeout=2.0) returns: the thread has ended, or the two seconds
\* have passed (timed_out) whatever the thread is doing
stop_join(timed_out) ==
    /\ stop_call.pc = "join"
    /\ loop_threads[loop_thread].pc = "ended" \/ timed_out
    /\ stop_call' = [pc |-> "idle"]
    /\ last_call' = [op |-> "stop", returned |-> TRUE,
                     alive |-> loop_threads[loop_thread].pc # "ended"]
    /\ UNCHANGED <<sensors, calibration_offset, ghost_activity, activity_patterns,
                   sensor_lock, snapshot, read_call, running, loop_thread, loop_threads>>
    /\ UNCHANGED <<now, alarm_vars, store_vars, analyzer_vars>>

\* _read_sensors_loop of thread i: the test of `while self.running`
read_sensors_loop_while(i) ==
    /\ loop_threads[i].pc = "while"
    /\ loop_threads' = [loop_threads EXCEPT
                           ![i] = [pc |-> IF running THEN "lock" ELSE "ended"]]
    /\ UNCHANGED <<sensors, calibration_offset, ghost_activity, activity_patterns,
                   sensor_lock, snapshot, read_call, running, loop_thread, stop_call>>
    /\ UNCHANGED <<now, last_call, alarm_vars, store_vars, analyzer_vars>>

\* _update_sensor_readings of thread i enters `with self.lock`; draw is what the
\* random calls of this cycle return
update_enter(i, draw) ==
    /\ loop_threads[i].pc = "lock"
    /\ sensor_lock_free(sensor_lock)
    /\ sensor_lock' = "loop"
    /\ loop_threads' = [loop_threads EXCEPT
                           ![i] = [pc |-> "ghost_activity", draw |-> draw]]
    /\ UNCHANGED <<sensors, calibration_offset, ghost_activity, activity_patterns,
                   snapshot, read_call, running, loop_thread, stop_call>>
    /\ UNCHANGED <<now, last_call, alarm_vars, store_vars, analyzer_vars>>

\* the statement after `pc` in the body of _update_sensor_readings
next_statement(pc) ==
    CASE pc = "ghost_activity" -> "emf"
      [] pc = "emf" -> "temperature"
      [] pc = "temperature" -> "humidity"
      [] pc = "humidity" -> "pressure"
      [] pc = "pressure" -> "spectral"
      [] pc = "spectral" -> "motion"
      [] pc = "motion" -> "unlock"

\* one assignment of the body of _update_sensor_readings, by thread i
update_assign(i) ==
    LET pc == loop_threads[i].pc
        draw == loop_threads[i].draw
        level == activity_level(now % 24, draw)
        value == CASE pc = "emf" ->
                          simulate_emf(ghost_activity, calibration_offset, draw)
                   [] pc = "temperature" ->
                          simulate_temperature(ghost_activity, calibration_offset,
                                               draw, sensors.emf)
                   [] pc = "humidity" ->
                          simulate_humidity(ghost_activity, calibration_offset,
                                            draw)
                   [] pc = "pressure" ->
                          simulate_pressure(ghost_activity, calibration_offset,
                                            draw)
                   [] pc = "spectral" ->
                          simulate_spectral(ghost_activity, calibration_offset,
                                            draw)
                   [] pc = "motion" ->
                          simulate_motion(ghost_activity, calibration_offset,
                                          draw, sensors.emf)
    IN  /\ pc \in {"ghost_activity", "emf", "temperature", "humidity", "pressure",
                   "spectral", "motion"}
        /\ IF pc = "ghost_activity"
           THEN /\ ghost_activity' = Min(1000, level)
                /\ activity_patterns' = patterns_after(activity_patterns, now,
                                                       level)
                /\ UNCHANGED sensors
           ELSE /\ sensors' = [sensors EXCEPT ![pc] = value]
                /\ UNCHANGED <<ghost_activity, activity_patterns>>
        /\ loop_threads' = [loop_threads EXCEPT ![i].pc = next_statement(pc)]
        /\ UNCHANGED <<calibration_offset, sensor_lock, snapshot, read_call,
                       running, loop_thread, stop_call>>
        /\ UNCHANGED <<now, last_call, alarm_vars, store_vars, analyzer_vars>>

\* the end of `with self.lock`: the cycle of thread i is complete
update_leave(i) ==
    /\ loop_threads[i].pc = "unlock"
    /\ sensor_lock' = "free"
    /\ snapshot' = sensors
    /\ loop_threads' = [loop_threads EXCEPT ![i] = [pc |-> "sleep"]]
    /\ UNCHANGED <<sensors, calibration_offset, ghost_activity, activity_patterns,
                   read_call, running, loop_thread, stop_call>>
    /\ UNCHANGED <<now, last_call, alarm_vars, store_vars, analyzer_vars>>

\* time.sleep(0.5) of thread i ends
read_sensors_loop_sleep(i) ==
    /\ loop_threads[i].pc = "sleep"
    /\ loop_threads' = [loop_threads EXCEPT ![i] = [pc |-> "while"]]
    /\ UNCHANGED <<sensors, calibration_offset, ghost_activity, activity_patterns,
                   sensor_lock, snapshot, read_call, running, loop_thread, stop_call>>
    /\ UNCHANGED <<now, last_call, alarm_vars, store_vars, analyzer_vars>>

----------------------------------------------------------------------------
(* main.py *)

\* generate_spectral_bands (ghost_analyzer.py), in tenths; a draw holds
\* base_frequency and, for each of the 20 bands, whether random() < 0.3, the
\* draw of uniform(-10, 50) and the draw of uniform(10, 40)
generate_spectral_bands(draw) ==
    [i \in 1..20 |->
        LET band == IF draw.active[i] THEN draw.base_frequency + draw.offset[i]
                    ELSE draw.quiet[i]
        IN  Max(50, Min(1000, band))]

\* sensor_data['spectralBands'] = ...: the dict with one more key
with_spectral_bands(sensor_data, bands) ==
    [k \in DOMAIN sensor_data \cup {"spectralBands"} |->
        IF k = "spectralBands" THEN bands ELSE sensor_data[k]]

\* main.py's handler adds a key to the dict get_all_readings returned to it
add_spectral_bands(band_draw) ==
    /\ read_call.pc = "returned"
    /\ read_call' = [pc |-> "idle"]
    /\ last_call' = [op |-> "add_spectral_bands",
                     sensor_data |-> with_spectral_bands(
                                         read_call.result,
                                         generate_spectral_bands(band_draw))]
    /\ UNCHANGED <<sensors, calibration_offset, ghost_activity, activity_patterns,
                   sensor_lock, snapshot, loop_vars>>
    /\ UNCHANGED <<now, alarm_vars, store_vars, analyzer_vars>>

\* get_sensor_data(), the handler of GET /api/sensors, called d hours after the
\* previous call.  log_reading stores the dict sensor_data itself, the one the
\* handler goes on to change; the handler goes past log_reading only if
\* log_reading returns.
get_sensor_data(d, choice, uniform, band_draw) ==
    LET sensor_data == get_all_readings(sensors)
        ghost_analysis == analysis_of(sensor_data, now', history, choice, uniform)
        log_entry == [timestamp |-> isoformat(now'),
                      sensors |-> sensor_data,
                      analysis |-> ghost_analysis]
        acquired == can_acquire(lock, FALSE)
        nested == can_acquire("held", TRUE)
        logged == acquired /\ (is_significant(ghost_analysis) => nested)
        triggered == logged /\ ghost_analysis.probability > 700
        returned_data == with_spectral_bands(sensor_data,
                                             generate_spectral_bands(band_draw))
        stored == IF logged THEN [log_entry EXCEPT !.sensors = returned_data]
                  ELSE log_entry
        previous_state == alarm_state
        current == threshold_level(ghost_analysis.probability)
    IN  /\ now' = now + d
        /\ history' = deque_append(history, ghost_analysis, ANALYZER_HISTORY_CAP)
        /\ logs' = IF acquired THEN deque_append(logs, stored, LOG_CAP) ELSE logs
        /\ events' = IF logged /\ is_significant(ghost_analysis)
                     THEN deque_append(
                              events,
                              event_entry(significant_detection(log_entry,
                                                                ghost_analysis),
                                          now'),
                              EVENT_CAP)
                     ELSE events
        /\ lock' = IF acquired /\ ~logged THEN "held" ELSE lock
        /\ alarm_state' = IF triggered THEN current ELSE alarm_state
        /\ active_alerts' =
               IF triggered
               THEN threshold_alert(active_alerts, isoformat(now'),
                                    ghost_analysis.probability)
               ELSE active_alerts
        /\ alarm_history' =
               IF triggered
               THEN state_change_logged(alarm_history, isoformat(now'),
                                        previous_state, current, ghost_analysis)
               ELSE alarm_history
        /\ sound_threads' = IF triggered
                            THEN alert_sound(sound_threads, previous_state, current)
                            ELSE sound_threads
        /\ last_call' = [op |-> "get_sensor_data",
                         sensor_data |-> sensor_data,
                         probability |-> ghost_analysis.probability,
                         previous_state |-> previous_state,
                         returned |-> logged]
        /\ UNCHANGED <<file, loaded, save_call, sensor_vars>>

----------------------------------------------------------------------------
(* The state after construction *)

Init ==
    /\ alarm_state = "NONE"
    /\ alarm_history = <<>>
    /\ active_alerts = <<>>
    /\ sound_threads = <<>>
    /\ logs = <<>>
    /\ events = <<>>
    /\ lock = "free"
    /\ file = [exists |-> FALSE]
    /\ loaded = [built |-> FALSE]
    /\ save_call = [pc |-> "idle"]
    /\ history = <<>>
    /\ sensors = [emf |-> 0, temperature |-> 720, humidity |-> 450,
                  pressure |-> 10130, spectral |-> 0, motion |-> 0]
    /\ calibration_offset = [emf |-> 0, temperature |-> 0, humidity |-> 0,
                             pressure |-> 0, spectral |-> 0, motion |-> 0]
    /\ ghost_activity = 0
    /\ activity_patterns = <<>>
    /\ sensor_lock = "free"
    /\ snapshot = sensors
    /\ read_call = [pc |-> "idle"]
    /\ running = FALSE
    /\ loop_thread = 0
    /\ loop_threads = <<>>
    /\ stop_call = [pc |-> "idle"]
    /\ now = 0
    /\ last_call = [op |-> "init"]

----------------------------------------------------------------------------
(* The alarm system under every order of trigger_alarm calls *)

MaxAlerts == 3
MaxTransitions == 3

TriggerProbabilities == {500, 600, 601, 800, 801, 900, 901}
TriggerGhostTypes == {"None", "Wraith"}

Trigger ==
    /\ Len(active_alerts) < MaxAlerts
    /\ Len(alarm_history) < MaxTransitions
    /\ \E p \in TriggerProbabilities, g \in TriggerGhostTypes :
           trigger_alarm([probability |-> p, ghost_type |-> g], 0)

NextAlarm == Trigger

SpecAlarm == Init /\ [][NextAlarm]_vars

----------------------------------------------------------------------------
(* The data logger under every order of its calls *)

MaxLogs == 2
MaxEvents == 2
MaxClock == 2

\* a reading as get_all_readings() returns it
SnapshotSamples ==
    {[emf |-> 851, temperature |-> 450, humidity |-> 500, pressure |-> 10000,
      spectral |-> 7500, motion |-> 700]}

\* results as analyze returns them, at the two sides of the thresholds 50 and 60
AnalysisSamples ==
    {[timestamp |-> isoformat(0), probability |-> 250, ghost_type |-> PyNone,
      evidence |-> <<>>, confidence |-> 0, activity_level |-> "Low",
      recommendations |-> <<>>],
     [timestamp |-> isoformat(0), probability |-> 600, ghost_type |-> "Wraith",
      evidence |-> <<"Cold Spot: 45.0 F">>, confidence |-> 213,
      activity_level |-> "High",
      recommendations |-> <<"Continue monitoring", "Check sensor calibration",
                            "Note environmental conditions">>],
     [timestamp |-> isoformat(0), probability |-> 601, ghost_type |-> "Wraith",
      evidence |-> <<"Cold Spot: 45.0 F", "Spectral Anomaly: 750.0 MHz">>,
      confidence |-> 350, activity_level |-> "High",
      recommendations |-> <<"Maintain observation - activity increasing",
                            "Deploy backup sensors", "Document all readings">>]}

EventSamples ==
    {[type |-> "calibration"],
     [type |-> "significant_detection", timestamp |-> isoformat(0),
      probability |-> 950, ghost_type |-> PyNone, evidence |-> <<"EMF Spike: 85 mG">>]}

Elapsed == {0, 1}
ReportHours == {0, 1, 2}

LogReading ==
    /\ Len(logs) < MaxLogs
    /\ \E sensor_data \in SnapshotSamples, analysis \in AnalysisSamples, d \in Elapsed :
           now + d <= MaxClock /\ log_reading(sensor_data, analysis, d)

LogEvent ==
    /\ Len(events) < MaxEvents
    /\ \E event_data \in EventSamples : log_event(event_data, 0)

GenerateReport ==
    \E hours \in ReportHours, d \in Elapsed :
        now + d <= MaxClock /\ generate_report(hours, d)

NextStore == LogReading \/ LogEvent \/ GenerateReport

SpecStore == Init /\ [][NextStore]_vars

----------------------------------------------------------------------------
(* The data logger saved to its file and a second store built from the file *)

MaxSavedLogs == 2

RecordThenSave ==
    /\ Len(logs) < MaxSavedLogs
    /\ \E sensor_data \in SnapshotSamples, analysis \in AnalysisSamples :
           log_reading(sensor_data, analysis, 0)

EventThenSave ==
    /\ Len(events) < MaxEvents
    /\ \E event_data \in EventSamples : log_event(event_data, 0)

SaveLogs == save_logs(0)

ConstructStore == construct_store

NextPersist == RecordThenSave \/ EventThenSave \/ SaveLogs \/ ConstructStore

SpecPersist == Init /\ [][NextPersist]_vars

----------------------------------------------------------------------------
(* The four rings filled past their capacity: one call per hour, first the
   alarm system driven round its four levels, then log_reading, then log_event *)

RingExtra == 5

TriggerPhaseEnd == ALARM_HISTORY_CAP + RingExtra
LogPhaseEnd == TriggerPhaseEnd + LOG_CAP + RingExtra
EventPhaseEnd == LogPhaseEnd + EVENT_CAP + RingExtra

RingTrigger ==
    /\ now < TriggerPhaseEnd
    /\ trigger_alarm([probability |-> CASE alarm_state = "NONE" -> 650
                                        [] alarm_state = "WARNING" -> 850
                                        [] alarm_state = "CRITICAL" -> 950
                                        [] alarm_state = "EMERGENCY" -> 500,
                      ghost_type |-> "Wraith"], 1)

RingLogReading ==
    /\ TriggerPhaseEnd <= now /\ now < LogPhaseEnd
    /\ \E sensor_data \in SnapshotSamples :
           log_reading(sensor_data,
                       [timestamp |-> isoformat(now), probability |-> 250,
                        ghost_type |-> PyNone, evidence |-> <<>>, confidence |-> 0,
                        activity_level |-> "Low", recommendations |-> <<>>], 1)

RingLogEvent ==
    /\ LogPhaseEnd <= now /\ now < EventPhaseEnd
    /\ log_event([type |-> "calibration"], 1)

NextRings == RingTrigger \/ RingLogReading \/ RingLogEvent

SpecRings == Init /\ [][NextRings]_vars

----------------------------------------------------------------------------
(* The analyzer under every order of analyze calls *)

MaxAnalyses == 2

\* readings as get_all_readings() returns them: the reading of a constructed
\* SensorManager, two quiet ones, and two with most of the evidence present
ReadingSamples ==
    {[emf |-> 0, temperature |-> 720, humidity |-> 450, pressure |-> 10130,
      spectral |-> 0, motion |-> 0],
     [emf |-> 7, temperature |-> 603, humidity |-> 450, pressure |-> 10130,
      spectral |-> 4329, motion |-> 100],
     [emf |-> 14, temperature |-> 643, humidity |-> 388, pressure |-> 10213,
      spectral |-> 8625, motion |-> 173],
     [emf |-> 800, temperature |-> 450, humidity |-> 500, pressure |-> 10000,
      spectral |-> 7000, motion |-> 700],
     [emf |-> 800, temperature |-> 450, humidity |-> 700, pressure |-> 9900,
      spectral |-> 7000, motion |-> 700]}

\* hours between two calls: with the clock at midnight first, calls fall in the
\* night, the dawn and the day band
AnalyzeElapsed == {0, 7, 13}

\* draws of random.uniform(5, 15), in tenths
UniformSamples == {50, 150}

\* draws of random.choice(self.ghost_types)
ChoiceSamples == {"Orb", "Banshee"}

Analyze ==
    /\ Len(history) < MaxAnalyses
    /\ \E sensor_data \in ReadingSamples, d \in AnalyzeElapsed,
          choice \in ChoiceSamples, uniform \in UniformSamples :
           analyze(sensor_data, d, choice, uniform)

NextAnalyzer == Analyze

SpecAnalyzer == Init /\ [][NextAnalyzer]_vars

----------------------------------------------------------------------------
(* The sensor manager under every interleaving of update cycles and calibrate *)

MaxPatterns == 2

\* draws at the ends of their ranges: a quiet, a middling and a busy cycle, with
\* or without the spikes, every jitter at its lowest or at its highest
DrawSamples ==
    {[random_activity |-> a * 200, cycle |-> a * 150,
      emf_jitter |-> j * 50, emf_spike |-> IF spike THEN 400 + j * 100 ELSE 0,
      temperature_jitter |-> j * 10,
      humidity_jitter |-> j * 30, humidity_rise |-> 100 + j * 50,
      pressure_jitter |-> j * 20, pressure_drop |-> -75 + j * 25,
      spectral_base |-> 2000 + j * 1000, spectral_sine |-> j * 500,
      spectral_spike |-> IF spike THEN 3000 + j * 1000 ELSE 0,
      motion_base |-> 100 + j * 100] :
        a \in {0, 1, 2}, j \in {-1, 1}, spike \in BOOLEAN}

\* draws of calibrate: every offset at -2, at 0 or at +2, and a mixed one
OffsetSamples ==
    {[emf |-> o, temperature |-> o, humidity |-> o, pressure |-> o,
      spectral |-> o, motion |-> o] : o \in {-20, 0, 20}}
    \cup {[emf |-> 20, temperature |-> -20, humidity |-> 13, pressure |-> -7,
           spectral |-> 20, motion |-> -20]}

\* hours between two cycles: the clock is at midnight first, so cycles fall in
\* the night and in the day
CycleElapsed == {0, 13}
MaxCycleClock == 13

Advance ==
    /\ Len(activity_patterns) < MaxPatterns
    /\ \E draw \in DrawSamples, d \in CycleElapsed :
           now + d <= MaxCycleClock /\ update_sensor_readings(draw, d)

Calibrate == \E offsets \in OffsetSamples : calibrate(offsets)

NextSensors == Advance \/ Calibrate

SpecSensors == Init /\ [][NextSensors]_vars

----------------------------------------------------------------------------
(* The alarm system under every order of the calls of its public methods *)

MaxCallAlerts == 3
MaxCallTransitions == 3

CallProbabilities == {500, 650, 850}
AlertIndexes == {-1, 0, 1, 2, 3, 4}

CallTrigger ==
    /\ Len(active_alerts) < MaxCallAlerts
    /\ Len(alarm_history) < MaxCallTransitions
    /\ \E p \in CallProbabilities :
           trigger_alarm([probability |-> p, ghost_type |-> "Wraith"], 0)

Acknowledge == \E alert_index \in AlertIndexes : acknowledge_alert(alert_index)

ClearAlarms == clear_alarms(0)

SimulateEmergency ==
    /\ Len(active_alerts) < MaxCallAlerts
    /\ Len(alarm_history) < MaxCallTransitions
    /\ simulate_emergency(0)

Shutdown == shutdown(0)

NextAlarmCalls ==
    CallTrigger \/ Acknowledge \/ ClearAlarms \/ SimulateEmergency \/ Shutdown

SpecAlarmCalls == Init /\ [][NextAlarmCalls]_vars

----------------------------------------------------------------------------
(* The alarm system and its sound threads: one trigger_alarm call per hour,
   the passes of the started threads interleaved with the calls *)

MaxSoundClock == 3

SoundProbabilities == {500, 650, 850, 950}

SoundTrigger ==
    /\ now < MaxSoundClock
    /\ \E p \in SoundProbabilities :
           trigger_alarm([probability |-> p, ghost_type |-> "Wraith"], 1)

PlaySound ==
    \E i \in 1..Len(sound_threads), beep_ok \in BOOLEAN : play_sound(i, beep_ok)

NextSound == SoundTrigger \/ PlaySound

SpecSound == Init /\ [][NextSound]_vars

----------------------------------------------------------------------------
(* Reports over readings logged at hours of day that do not come in
   increasing order: the clock passes midnight between two readings *)

MaxReportLogs == 3
MaxReportClock == 25

ReportElapsed == {0, 1, 23}
ReportWindows == {1, 24, 48}

\* the result of analyze on a quiet reading
QuietAnalysis ==
    [timestamp |-> isoformat(0), probability |-> 250, ghost_type |-> PyNone,
     evidence |-> <<>>, confidence |-> 0, activity_level |-> "Low",
     recommendations |-> <<>>]

ReportLogReading ==
    /\ Len(logs) < MaxReportLogs
    /\ \E sensor_data \in SnapshotSamples, d \in ReportElapsed :
           now + d <= MaxReportClock /\ log_reading(sensor_data, QuietAnalysis, d)

ReportRequest == \E hours \in ReportWindows : generate_report(hours, 0)

NextReport == ReportLogReading \/ ReportRequest

SpecReport == Init /\ [][NextReport]_vars

----------------------------------------------------------------------------
(* The application: the sensor loop's cycles, polls of GET /api/sensors and a
   simulated emergency, in every order *)

MaxPolls == 2
MaxPollCycles == 2
MaxPollTransitions == 1

PollElapsed == {0, 13}
MaxPollClock == 13

\* draws of generate_spectral_bands: a quiet spectrum and one with active bands
BandDraws ==
    {[base_frequency |-> 200, active |-> [i \in 1..20 |-> FALSE],
      offset |-> [i \in 1..20 |-> 0], quiet |-> [i \in 1..20 |-> 250]],
     [base_frequency |-> 800, active |-> [i \in 1..20 |-> i % 3 = 0],
      offset |-> [i \in 1..20 |-> 500 - 30 * i],
      quiet |-> [i \in 1..20 |-> 100 + 15 * i]]}

PollCycle ==
    /\ Len(activity_patterns) < MaxPollCycles
    /\ \E draw \in DrawSamples, d \in PollElapsed :
           now + d <= MaxPollClock /\ update_sensor_readings(draw, d)

Poll ==
    /\ Len(history) < MaxPolls
    /\ \E d \in PollElapsed, band_draw \in BandDraws :
           now + d <= MaxPollClock /\ get_sensor_data(d, "Orb", 100, band_draw)

PollSimulateEmergency ==
    /\ Len(alarm_history) < MaxPollTransitions
    /\ simulate_emergency(0)

NextPoll == PollCycle \/ Poll \/ PollSimulateEmergency

SpecPoll == Init /\ [][NextPoll]_vars

----------------------------------------------------------------------------
(* The data logger used by two threads: one runs save_logs, the other calls
   log_reading and log_event; a second store may be built from the file *)

MaxSavingLogs == 2
MaxSavingEvents == 1

SavingLogReading ==
    /\ Len(logs) < MaxSavingLogs
    /\ \E sensor_data \in SnapshotSamples, analysis \in AnalysisSamples :
           log_reading(sensor_data, analysis, 0)

SavingLogEvent ==
    /\ Len(events) < MaxSavingEvents
    /\ \E event_data \in EventSamples : log_event(event_data, 0)

SaveOpen == save_logs_open

SaveReadEvents == save_logs_read_events

SaveDump == save_logs_dump

SavingConstructStore == construct_store

NextSaving ==
    \/ SavingLogReading
    \/ SavingLogEvent
    \/ SaveOpen
    \/ SaveReadEvents
    \/ SaveDump
    \/ SavingConstructStore

SpecSaving == Init /\ [][NextSaving]_vars

----------------------------------------------------------------------------
(* The data logger's queries and its purge, between log_reading and log_event
   calls; readings are a day apart or made at the same hour *)

MaxQueryLogs == 2
MaxQueryEvents == 2
MaxQueryClock == 24

QueryElapsed == {0, 24}

\* event_data of two types, and one without a type
QueryEventSamples == {[type |-> "calibration"], [type |-> "alert"], [note |-> "x"]}

QueryEventTypes == {PyNone, "calibration", "info"}
QueryLimits == {0, 1, 100}
QueryCounts == {0, 1, 50}
QueryDays == {0, 1}

QueryLogReading ==
    /\ Len(logs) < MaxQueryLogs
    /\ \E sensor_data \in SnapshotSamples, d \in QueryElapsed :
           now + d <= MaxQueryClock /\ log_reading(sensor_data, QuietAnalysis, d)

QueryLogEvent ==
    /\ Len(events) < MaxQueryEvents
    /\ \E event_data \in QueryEventSamples : log_event(event_data, 0)

GetRecentLogs == \E count \in QueryCounts : get_recent_logs(count)

GetEvents ==
    \E event_type \in QueryEventTypes, limit \in QueryLimits :
        get_events(event_type, limit)

ClearOldLogs ==
    \E days \in QueryDays, d \in QueryElapsed :
        now + d <= MaxQueryClock /\ clear_old_logs(days, d)

NextQueries ==
    QueryLogReading \/ QueryLogEvent \/ GetRecentLogs \/ GetEvents \/ ClearOldLogs

SpecQueries == Init /\ [][NextQueries]_vars

----------------------------------------------------------------------------
(* The analyzer on readings at and around the thresholds of the type decision
   tree *)

MaxTypeAnalyses == 2

\* emf, temperature, spectral and motion of each reading; humidity and pressure
\* are 50 % and 1000 hPa in all of them
TypeChannels ==
    {<<800, 450, 7000, 700>>, <<800, 600, 5000, 700>>, <<500, 600, 7000, 300>>,
     <<500, 450, 5000, 300>>, <<500, 600, 5000, 700>>, <<700, 500, 6000, 600>>,
     <<701, 499, 6000, 601>>, <<800, 499, 6001, 300>>, <<710, 600, 6500, 610>>,
     <<0, 720, 0, 0>>}

TypeReadingSamples ==
    {[emf |-> c[1], temperature |-> c[2], humidity |-> 500, pressure |-> 10000,
      spectral |-> c[3], motion |-> c[4]] : c \in TypeChannels}

TypeElapsed == {0, 13}

TypeAnalyze ==
    /\ Len(history) < MaxTypeAnalyses
    /\ \E sensor_data \in TypeReadingSamples, d \in TypeElapsed,
          choice \in ChoiceSamples :
           analyze(sensor_data, d, choice, 100)

NextTypes == TypeAnalyze

SpecTypes == Init /\ [][NextTypes]_vars

----------------------------------------------------------------------------
\* The analyzer called once an hour for more than two days, as main.py's loop
\* calls it on every poll: the history fills to its capacity and then evicts.
\* The reading may change before the calls numbered in TrendChangePoints and
\* repeats otherwise.

MaxTrendClock == 54

\* lengths of the history at which the next reading may differ from the last
TrendChangePoints == {0, 9, 10}

TrendAnalyze ==
    /\ now < MaxTrendClock
    /\ \E sensor_data \in ReadingSamples :
           /\ Len(history) \notin TrendChangePoints
                  => sensor_data = last_call.sensor_data
           /\ analyze(sensor_data, 1, "Orb", 100)

NextTrend == TrendAnalyze

SpecTrend == Init /\ [][NextTrend]_vars

----------------------------------------------------------------------------
\* The sensor manager with its threads: start and stop called one after the
\* other by the application, the loops they leave running, and a reader and a
\* calibration that run beside them.

MaxLoopThreads == 2
MaxLoopCycles == 2

\* a quiet cycle and an active one, which leave no sensor value in common
LoopDraws ==
    {draw \in DrawSamples :
        \/ draw.random_activity = 0 /\ draw.emf_jitter < 0 /\ draw.emf_spike = 0
        \/ draw.random_activity = 400 /\ draw.emf_jitter > 0 /\ draw.emf_spike > 0}

LoopOffsets == {o \in OffsetSamples : o.emf = 20}

Start ==
    /\ running \/ Len(loop_threads) < MaxLoopThreads
    /\ start

StopEnter == stop_enter

StopJoin == \E timed_out \in BOOLEAN : stop_join(timed_out)

LoopWhile == \E i \in DOMAIN loop_threads : read_sensors_loop_while(i)

UpdateEnter ==
    /\ Len(activity_patterns) < MaxLoopCycles
    /\ \E i \in DOMAIN loop_threads, draw \in LoopDraws : update_enter(i, draw)

UpdateAssign == \E i \in DOMAIN loop_threads : update_assign(i)

UpdateLeave == \E i \in DOMAIN loop_threads : update_leave(i)

LoopSleep == \E i \in DOMAIN loop_threads : read_sensors_loop_sleep(i)

ReadEnter == get_all_readings_enter

ReadCopy == get_all_readings_copy

ReadReturn == get_all_readings_return

AddSpectralBands == \E band_draw \in BandDraws : add_spectral_bands(band_draw)

LoopCalibrate ==
    /\ calibration_offset \notin LoopOffsets
    /\ \E offsets \in LoopOffsets : calibrate(offsets)

NextLoop ==
    \/ Start
    \/ StopEnter
    \/ StopJoin
    \/ LoopWhile
    \/ UpdateEnter
    \/ UpdateAssign
    \/ UpdateLeave
    \/ LoopSleep
    \/ ReadEnter
    \/ ReadCopy
    \/ ReadReturn
    \/ AddSpectralBands
    \/ LoopCalibrate

SpecLoop == Init /\ [][NextLoop]_vars

----------------------------------------------------------------------------
(* Claims *)

\* The level the contract's table gives a probability (in tenths)
TableLevel(p) ==
    CASE p > 900 -> "EMERGENCY"
      [] 800 < p /\ p <= 900 -> "CRITICAL"
      [] 600 < p /\ p <= 800 -> "WARNING"
      [] p <= 600 -> "NONE"

\* C1: after trigger_alarm(result) the alarm state is the level the table gives
\* result.probability, whatever the state was before; a lower probability
\* downgrades it, down to NONE.
C1_StateFromProbability ==
    last_call.op = "trigger_alarm" => alarm_state = TableLevel(last_call.probability)

C1_Witness ==
    /\ last_call.op = "trigger_alarm"
    /\ last_call.previous_state = "EMERGENCY"
    /\ last_call.probability = 600
    /\ alarm_state = "NONE"

\* one item was appended to a ring of the given capacity, the oldest evicted
AppendedOne(old, new, cap) ==
    /\ Len(new) >= 1
    /\ new = LastN(Append(old, new[Len(new)]), cap)

\* C2: trigger_alarm appends an alert if and only if the new level is strictly
\* greater than the previous one, and then exactly one; a trigger that lowers
\* the level or leaves it unchanged leaves the alert ring unchanged.
C2_AlertOnlyOnIncrease ==
    [][last_call'.op = "trigger_alarm" =>
         IF AlarmValue(alarm_state') > AlarmValue(alarm_state)
         THEN AppendedOne(active_alerts, active_alerts', ALERT_CAP)
         ELSE active_alerts' = active_alerts]_vars

\* C3: log_reading returns after appending exactly one log entry and, if and
\* only if the probability is above 60, exactly one "significant_detection"
\* event carrying the result's probability, type and evidence.
C3_RecordAppends ==
    [][last_call'.op = "log_reading" =>
         /\ last_call'.returned
         /\ AppendedOne(logs, logs', LOG_CAP)
         /\ IF last_call'.probability > 600
            THEN /\ AppendedOne(events, events', EVENT_CAP)
                 /\ LET e == events'[Len(events')]
                        a == logs'[Len(logs')].analysis
                    IN  /\ e.type = "significant_detection"
                        /\ e.data.probability = a.probability
                        /\ e.data.ghost_type = a.ghost_type
                        /\ e.data.evidence = a.evidence
            ELSE events' = events]_vars

\* a ring either keeps its content or gains one item at its end, evicting its
\* oldest item when it is at capacity
RingStep(old, new, cap) ==
    /\ Len(new) <= cap
    /\ new # old => AppendedOne(old, new, cap)

\* C4: none of the four rings (alerts 20, transitions 100, logs 1000, events
\* 500) ever exceeds its capacity, and an append to a full ring evicts the
\* oldest entry, so that the ring holds the most recent entries in insertion
\* order.
C4_RingsBounded ==
    [][/\ RingStep(active_alerts, active_alerts', 20)
       /\ RingStep(alarm_history, alarm_history', 100)
       /\ RingStep(logs, logs', 1000)
       /\ RingStep(events, events', 500)]_vars

C4_Witness ==
    /\ Len(active_alerts) = 20
    /\ Len(alarm_history) = 100
    /\ Len(logs) = 1000
    /\ Len(events) = 500
    /\ fromisoformat(alarm_history[1].timestamp) > 1
    /\ fromisoformat(active_alerts[1].timestamp) > 1
    /\ fromisoformat(logs[1].timestamp) > TriggerPhaseEnd + 1
    /\ fromisoformat(events[1].timestamp) > LogPhaseEnd + 1

\* C5: trigger_alarm appends exactly one transition record (previous level, new
\* level, the result's probability and type) when the level changes, and none
\* when it does not.
C5_TransitionRecorded ==
    [][last_call'.op = "trigger_alarm" =>
         IF alarm_state' # alarm_state
         THEN /\ AppendedOne(alarm_history, alarm_history', ALARM_HISTORY_CAP)
              /\ LET r == alarm_history'[Len(alarm_history')]
                 IN  /\ r.previous_state = alarm_state
                     /\ r.current_state = alarm_state'
                     /\ r.probability = last_call'.probability
                     /\ r.ghost_type = last_call'.ghost_type
         ELSE alarm_history' = alarm_history]_vars

C5_Witness ==
    /\ last_call.op = "trigger_alarm"
    /\ last_call.previous_state = "EMERGENCY"
    /\ alarm_state = "WARNING"
    /\ Len(alarm_history) = 2
    /\ alarm_history[2].previous_state = "EMERGENCY"
    /\ alarm_history[2].current_state = "WARNING"

\* C6: save_logs followed by the construction of a second store on the file
\* gives that store log and event rings equal, in order and content, to the
\* rings that were saved.
C6_RoundTrip ==
    (last_call.op = "construct_store" /\ last_call.after_save) =>
        (loaded.logs = logs /\ loaded.events = events)

C6_Witness ==
    /\ last_call.op = "construct_store"
    /\ last_call.after_save
    /\ Len(loaded.logs) = 2
    /\ loaded.logs[1] # loaded.logs[2]
    /\ Len(loaded.events) = 2
    /\ loaded.events[1] # loaded.events[2]
    /\ loaded.events[2].data.ghost_type = PyNone

\* the positions of the log entries stamped inside the trailing window
InWindow(hours) ==
    {i \in 1..Len(logs) : fromisoformat(logs[i].timestamp) > now - hours}

\* C7: generate_report(hours) returns the no-data result whenever no log entry
\* is stamped inside the trailing window, the log ring being empty or not, and
\* otherwise a report whose count is the number of entries in the window.
C7_ReportNoData ==
    last_call.op = "generate_report" =>
        IF InWindow(last_call.hours) = {}
        THEN last_call.result = [error |-> "No data available for this period"]
        ELSE /\ "error" \notin DOMAIN last_call.result
             /\ last_call.result.total_readings = Cardinality(InWindow(last_call.hours))

C7_Witness ==
    /\ last_call.op = "generate_report"
    /\ Len(logs) > 0
    /\ InWindow(last_call.hours) = {}
    /\ "error" \in DOMAIN last_call.result

\* The label the contract gives a returned probability (in tenths)
TableLabel(p) ==
    CASE p < 300 -> "Low"
      [] 300 <= p /\ p < 600 -> "Moderate"
      [] 600 <= p /\ p < 800 -> "High"
      [] p >= 800 -> "Critical"

\* C8: every result of analyze has its probability in [0, 100] and the
\* activity-level label that the returned one-decimal probability alone
\* determines: Low below 30, Moderate below 60, High below 80, else Critical.
C8_LabelFromReturnedProbability ==
    last_call.op = "analyze" =>
        /\ 0 <= last_call.result.probability
        /\ last_call.result.probability <= 1000
        /\ last_call.result.activity_level = TableLabel(last_call.result.probability)

\* The recommendations of the band of a returned probability above 40
BandRecommendations(p) ==
    CASE p > 800 -> <<"IMMEDIATE EVACUATION RECOMMENDED",
                      "Contact paranormal investigation team",
                      "Set up additional recording equipment">>
      [] 600 < p /\ p <= 800 -> <<"Maintain observation - activity increasing",
                                  "Deploy backup sensors", "Document all readings">>
      [] 400 < p /\ p <= 600 -> <<"Continue monitoring", "Check sensor calibration",
                                  "Note environmental conditions">>

\* C9: in every result of analyze, type, evidence, confidence and
\* recommendations are populated if and only if the returned probability is
\* above 40: at 40.0 or below the type is null, the evidence empty, the
\* confidence 0 and the recommendations empty; above 40 there is a type, a
\* non-zero confidence and the recommendations of the band; the evidence never
\* has more than 5 entries.
C9_PopulatedIffAbove40 ==
    last_call.op = "analyze" =>
        LET r == last_call.result
        IN  /\ Len(r.evidence) <= 5
            /\ IF r.probability > 400
               THEN /\ r.ghost_type \in GhostTypes
                    /\ r.confidence > 0
                    /\ r.recommendations = BandRecommendations(r.probability)
               ELSE /\ r.ghost_type = PyNone
                    /\ r.evidence = <<>>
                    /\ r.confidence = 0
                    /\ r.recommendations = <<>>

\* C10: initially and after any interleaving of update cycles and calibrate
\* calls, each of the six channel values lies within its declared bounds: emf
\* [0,100], temperature [40,90], humidity [20,80], pressure [980,1030],
\* spectral [0,1000], motion [0,100].
C10_ChannelsInBounds ==
    /\ 0 <= sensors.emf /\ sensors.emf <= 1000
    /\ 400 <= sensors.temperature /\ sensors.temperature <= 900
    /\ 200 <= sensors.humidity /\ sensors.humidity <= 800
    /\ 9800 <= sensors.pressure /\ sensors.pressure <= 10300
    /\ 0 <= sensors.spectral /\ sensors.spectral <= 10000
    /\ 0 <= sensors.motion /\ sensors.motion <= 1000

C10_Witness ==
    /\ last_call.op = "update_sensor_readings"
    /\ calibration_offset.emf = 20
    /\ calibration_offset.temperature = -20
    /\ sensors.emf = 1000
    /\ sensors.temperature = 400
    /\ sensors.spectral = 10000

\* C13: after clear_alarms, from any state, the alarm state is NONE and the
\* alert ring holds exactly one alert, the informational "cleared" alert, not
\* acknowledged; every alert that was there before the call is gone.
C13_ClearLeavesOneAlert ==
    last_call.op \in {"clear_alarms", "shutdown"} =>
        /\ alarm_state = "NONE"
        /\ Len(active_alerts) = 1
        /\ active_alerts[1].type = "info"
        /\ active_alerts[1].message = "All alarms cleared"
        /\ active_alerts[1].acknowledged = FALSE

C13_Witness ==
    /\ last_call.op = "clear_alarms"
    /\ last_call.previous_state = "EMERGENCY"
    /\ Len(alarm_history) = 3
    /\ Len(active_alerts) = 1
    /\ alarm_state = "NONE"

\* C14: acknowledge_alert(index) with 0 <= index < number of alerts sets the
\* acknowledged flag of exactly the alert at that index and returns True,
\* leaving the other alerts, the alarm state and the transition history
\* unchanged; with any other integer index it returns False and changes nothing.
C14_AcknowledgeInRange ==
    [][last_call'.op = "acknowledge_alert" =>
         LET index == last_call'.alert_index
             before == active_alerts
         IN  /\ alarm_state' = alarm_state
             /\ alarm_history' = alarm_history
             /\ Len(active_alerts') = Len(before)
             /\ IF 0 <= index /\ index < Len(before)
                THEN /\ last_call'.result = TRUE
                     /\ active_alerts'[index + 1] =
                            [before[index + 1] EXCEPT !.acknowledged = TRUE]
                     /\ \A i \in 1..Len(before) :
                            i # index + 1 => active_alerts'[i] = before[i]
                ELSE /\ last_call'.result = FALSE
                     /\ active_alerts' = before]_vars

C14_Witness ==
    /\ last_call.op = "acknowledge_alert"
    /\ last_call.alert_index = 1
    /\ last_call.result = TRUE
    /\ Len(active_alerts) = 3
    /\ active_alerts[1].acknowledged = FALSE
    /\ active_alerts[2].acknowledged = TRUE
    /\ active_alerts[3].acknowledged = FALSE

\* C15: trigger_alarm starts a sound thread if and only if the new level is
\* strictly greater than the previous one, with 3, 5 or 8 repetitions for
\* WARNING, CRITICAL and EMERGENCY; trigger_alarm returns with the thread not
\* yet run, and what the thread does afterwards, a failure included, changes
\* neither the alarm system's state nor what the call returned.
C15_SoundOnIncreaseDetached ==
    [][/\ now' # now =>
            IF AlarmValue(alarm_state') > AlarmValue(alarm_state)
            THEN sound_threads' =
                     Append(sound_threads,
                            [level |-> alarm_state',
                             repetitions |-> CASE alarm_state' = "WARNING" -> 3
                                               [] alarm_state' = "CRITICAL" -> 5
                                               [] alarm_state' = "EMERGENCY" -> 8,
                             played |-> 0, status |-> "running"])
            ELSE sound_threads' = sound_threads
       /\ now' = now =>
            /\ UNCHANGED <<alarm_state, alarm_history, active_alerts, last_call>>
            /\ Len(sound_threads') = Len(sound_threads)
            /\ \A i \in 1..Len(sound_threads') :
                   (sound_threads'[i].status = "finished")
                       = (sound_threads'[i].played = sound_threads'[i].repetitions)]_vars

C15_Witness ==
    /\ last_call.op = "trigger_alarm"
    /\ alarm_state = "EMERGENCY"
    /\ Len(sound_threads) = 3
    /\ sound_threads[1].status = "failed"
    /\ sound_threads[2].status = "running" /\ sound_threads[2].played = 2
    /\ sound_threads[3] = [level |-> "EMERGENCY", repetitions |-> 8, played |-> 0,
                           status |-> "running"]

\* C16 as stated: trigger_alarm with probability exactly 90.0 sets the alarm
\* state to WARNING, and with 90.1 to EMERGENCY.
C16_Warning_At_90 ==
    last_call.op = "trigger_alarm" =>
        /\ last_call.probability = 900 => alarm_state = "WARNING"
        /\ last_call.probability = 901 => alarm_state = "EMERGENCY"

\* C16, amended: the thresholds are strict, so trigger_alarm with probability
\* exactly 90.0 sets the alarm state to CRITICAL (90.0 is above 80 and not
\* above 90), and with 90.1 to EMERGENCY.
C16_Critical_At_90 ==
    last_call.op = "trigger_alarm" =>
        /\ last_call.probability = 900 => alarm_state = "CRITICAL"
        /\ last_call.probability = 901 => alarm_state = "EMERGENCY"

C16_Witness ==
    /\ last_call.op = "trigger_alarm"
    /\ last_call.probability = 900
    /\ last_call.previous_state = "EMERGENCY"
    /\ alarm_state = "CRITICAL"

\* C19: every change of the alarm state, by trigger_alarm, simulate_emergency,
\* clear_alarms or shutdown, appends a transition record: in alarm_history the
\* previous level of each record is the new level of the record before it, and
\* the new level of the latest record is the current alarm state.
C19_HistoryFollowsState ==
    /\ \A i \in 1..(Len(alarm_history) - 1) :
           alarm_history[i + 1].previous_state = alarm_history[i].current_state
    /\ IF alarm_history = <<>> THEN alarm_state = "NONE"
       ELSE alarm_history[Len(alarm_history)].current_state = alarm_state

\* C18: no call of the data logger waits forever on the store's lock or leaves
\* it held: every log_reading call returns, for every probability, and after
\* it the lock is free for the next call.
C18_StoreNeverBlocks ==
    /\ lock = "free"
    /\ last_call.op = "log_reading" => last_call.returned

\* the number of readings in the window stamped at hour of day h
ReadingsAtHour(hours, h) ==
    Cardinality({i \in InWindow(hours) : fromisoformat(logs[i].timestamp) % 24 = h})

\* the hours of day with the highest number of readings in the window
BusiestHours(hours) ==
    {h \in 0..23 : \A g \in 0..23 : ReadingsAtHour(hours, g) <= ReadingsAtHour(hours, h)}

\* C20: in a report that is not the no-data result, the most active hour is
\* the hour of day with the highest number of readings in the window, and the
\* lowest such hour when several tie, whatever the order of the hours in the
\* log ring.
C20_LowestBusiestHour ==
    (last_call.op = "generate_report" /\ "error" \notin DOMAIN last_call.result) =>
        LET busiest == BusiestHours(last_call.hours)
            lowest == CHOOSE h \in busiest : \A g \in busiest : h <= g
        IN  /\ last_call.result.most_active_hour.hour = lowest
            /\ last_call.result.most_active_hour.readings
                   = ReadingsAtHour(last_call.hours, lowest)

\* C11: after a poll whose analysis has probability p, the alarm state is the
\* threshold level of p: WARNING for 60 < p <= 70, NONE for p <= 60.
C11_PollSetsAlarmState ==
    last_call.op = "get_sensor_data" =>
        /\ last_call.returned
        /\ alarm_state = TableLevel(last_call.probability)

\* C17: a log entry is stored by value: once log_reading has returned, the
\* sensors of the entry are the snapshot that was handed to it, also after the
\* poll handler has added the visualization data to its snapshot.
C17_EntryKeepsSnapshot ==
    (last_call.op = "get_sensor_data" /\ last_call.returned) =>
        logs[Len(logs)].sensors = last_call.sensor_data

\* C12: the log ring and the event ring are read and written only with the
\* store's lock held: while save_logs is reading the rings the lock is held,
\* and no log_reading or log_event changes a ring between the reads of one
\* save_logs call.
C12_SaveReadsUnderLock ==
    [][/\ save_call'.pc \in {"logs_read", "events_read"} => lock' = "held"
       /\ save_call.pc = "logs_read" => (logs' = logs /\ events' = events)]_vars

\* the events of the ring whose data carry the given type, oldest first
EventsOfType(event_type) ==
    SelectSeq(events, LAMBDA e : "type" \in DOMAIN e.data /\ e.data.type = event_type)

\* C21: get_events with a type filter returns the min(limit, m) most recent
\* events of that type, in their original order, m being the number of events
\* of that type in the ring; events of other types do not reduce that number.
C21_EventsOfTypeLimited ==
    (last_call.op = "get_events" /\ last_call.event_type # PyNone
         /\ last_call.limit >= 1) =>
        LET matching == EventsOfType(last_call.event_type)
            m == Len(matching)
            k == IF last_call.limit < m THEN last_call.limit ELSE m
        IN  last_call.result = SubSeq(matching, m - k + 1, m)

\* C22: get_recent_logs(n) returns, for every n >= 0, the min(n, length) most
\* recent log entries, oldest first, and leaves the log ring unchanged;
\* get_recent_logs(0) returns an empty list.
C22_RecentLogs ==
    [][last_call'.op = "get_recent_logs" =>
         LET n == last_call'.count
             k == IF n < Len(logs) THEN n ELSE Len(logs)
         IN  /\ logs' = logs
             /\ last_call'.result = SubSeq(logs, Len(logs) - k + 1, Len(logs))]_vars

\* C23: clear_old_logs(days) removes exactly the log entries stamped strictly
\* before the cutoff (now minus days) and keeps every other entry, one stamped
\* exactly at the cutoff included, in its original order; the reported count is
\* the number of entries removed, and the event ring is unchanged.
C23_PurgeKeepsCutoff ==
    [][last_call'.op = "clear_old_logs" =>
         LET cutoff == now' - 24 * last_call'.days
         IN  /\ logs' = SelectSeq(logs, LAMBDA log :
                                           fromisoformat(log.timestamp) >= cutoff)
             /\ last_call'.removed = Len(logs) - Len(logs')
             /\ events' = events]_vars

\* C24: in a result with probability above 40 the type follows the decision
\* tree in its order: temperature < 50 and spectral > 600 give Wraith, also when
\* emf > 70 and motion > 60 hold; otherwise emf > 70 and motion > 60 give
\* Poltergeist; otherwise spectral > 600 gives Specter; otherwise temperature <
\* 50 gives Phantom; otherwise motion > 60 gives Apparition; only when none of
\* these holds is the type one drawn from the catalog of 10.
C24_TypeDecisionTree ==
    (last_call.op = "analyze" /\ last_call.result.probability > 400) =>
        LET data == last_call.sensor_data
            type == last_call.result.ghost_type
        IN  CASE data.temperature < 500 /\ data.spectral > 6000 -> type = "Wraith"
              [] ~(data.temperature < 500 /\ data.spectral > 6000)
                 /\ data.emf > 700 /\ data.motion > 600 -> type = "Poltergeist"
              [] data.temperature >= 500 /\ data.spectral > 6000
                 /\ ~(data.emf > 700 /\ data.motion > 600) -> type = "Specter"
              [] data.temperature < 500 /\ data.spectral <= 6000
                 /\ ~(data.emf > 700 /\ data.motion > 600) -> type = "Phantom"
              [] data.temperature >= 500 /\ data.spectral <= 6000
                 /\ data.emf <= 700 /\ data.motion > 600 -> type = "Apparition"
              [] OTHER -> /\ type \in GhostTypes
                          /\ Cardinality(GhostTypes) = 10

C24_Witness ==
    /\ last_call.op = "analyze"
    /\ last_call.result.probability > 400
    /\ last_call.sensor_data.emf > 700 /\ last_call.sensor_data.motion > 600
    /\ last_call.sensor_data.temperature < 500
    /\ last_call.sensor_data.spectral > 6000
    /\ last_call.result.ghost_type = "Wraith"
    /\ Len(history) = 2
    /\ history[1].ghost_type = "Banshee"

\* C26: in a result with probability above 40, confidence = min(100, 15 k + 8 h
\* + r), k being the number of channels above their confidence thresholds, h
\* the number of results with probability above 50 among the last 5 of the
\* history before the call, whatever the length of that history, and r a draw
\* from [5, 15]; the confidence lies in [5, 100].
C26_ConfidenceFormula ==
    (last_call.op = "analyze" /\ last_call.result.probability > 400) =>
        LET data == last_call.sensor_data
            before == SubSeq(history, 1, Len(history) - 1)
            last5 == SubSeq(before, IF Len(before) > 5 THEN Len(before) - 4 ELSE 1,
                            Len(before))
            k == Cardinality({c \in {"emf", "temperature", "spectral", "motion"} :
                                 data[c] > (CASE c = "emf" -> 600
                                              [] c = "temperature" -> 550
                                              [] c = "spectral" -> 5000
                                              [] c = "motion" -> 600)})
            h == Cardinality({i \in 1..Len(last5) : last5[i].probability > 500})
            confidence == last_call.result.confidence
        IN  /\ 50 <= confidence /\ confidence <= 1000
            /\ \E r \in 50..150 :
                   confidence = (IF 150 * k + 80 * h + r < 1000
                                 THEN 150 * k + 80 * h + r ELSE 1000)

\* C25: the trend modifier analyze adds is a function of the history before
\* the call alone: 0 under 10 results; otherwise, delta being the probability
\* of the most recent result minus that of the 10th most recent, 15 for
\* delta > 20, 8 for 10 < delta <= 20, 0 otherwise.  The history gains the
\* result of the call, one entry, and never holds more than 50.
C25_TrendModifier ==
    [][now' # now =>
        LET n == Len(history)
            delta == history[n].probability - history[n - 9].probability
            modifier == IF n < 10 THEN 0
                        ELSE IF delta > 200 THEN 15
                        ELSE IF delta > 100 THEN 8
                        ELSE 0
            unmodified == calculate_probability(last_call'.sensor_data,
                                                now' % 24, <<>>)
            modified == unmodified + modifier * 10000
        IN  /\ last_call'.op = "analyze"
            /\ last_call'.result.probability
                   = round_1(Max(0, Min(1000000, modified)))
            /\ Len(history') <= 50
            /\ history' = IF n < 50 THEN Append(history, last_call'.result)
                          ELSE Append(Tail(history), last_call'.result)
    ]_vars

\* a full history that has evicted, the last call having met a rising trend
C25_Witness ==
    /\ last_call.op = "analyze"
    /\ Len(history) = 50
    /\ now > 51
    /\ history[49].probability - history[40].probability > 100
    /\ \E i \in 11..50 :
           history[i - 1].probability - history[i - 10].probability > 200

\* C27: get_all_readings run beside the update cycles and calibrate returns no
\* torn snapshot: its six values are those of the last completed cycle (the
\* initial ones before any cycle), and what the caller then does to the returned
\* dict leaves the sensor values as they were.
C27_NoTornSnapshot ==
    [][/\ (read_call.pc = "reading" /\ read_call'.pc = "returned")
            => /\ read_call'.result = get_all_readings(snapshot)
               /\ last_call'.result = read_call'.result
       /\ (read_call.pc = "returned" /\ read_call'.pc = "idle")
            => /\ "spectralBands" \in DOMAIN last_call'.sensor_data
               /\ "spectralBands" \notin DOMAIN sensors'
               /\ sensors' = sensors
               /\ snapshot' = snapshot
    ]_vars

\* a read has returned the values of a completed cycle while a loop thread
\* stands at the lock for its next cycle and the offsets have been calibrated
C27_Witness ==
    /\ read_call.pc = "returned"
    /\ read_call.result = snapshot
    /\ snapshot.emf # 0
    /\ calibration_offset.emf # 0
    /\ Len(activity_patterns) > 0
    /\ \E i \in DOMAIN loop_threads : loop_threads[i].pc = "lock"

\* C28: whatever the sequence of start() and stop() calls, at most one thread
\* is in _read_sensors_loop at any time.
C28_SingleLoop ==
    Cardinality({i \in DOMAIN loop_threads : loop_threads[i].pc # "ended"}) <= 1

====
